---- MODULE Spec2Model ----
(***************************************************************************)
(* AsyncManager<StreamT> of rosaic (async_manager.hpp): one worker thread  *)
(* runs io_service::run and executes doRead, async_read_some_handler and   *)
(* doClose; foreground threads call wait, setCallback and the destructor.  *)
(* The stream (StreamT) and the consumer callback are the environment.     *)
(***************************************************************************)
EXTENDS Integers, Sequences, FiniteSets, TLC

\* in_.resize(buffer_size): the capacity the caller constructs the manager with.
Cap == 3
\* Number of completions the stream produces while it is open.
MaxCompletions == 2
\* Largest number of bytes the stream hands over in one completion.
MaxChunk == Cap
\* Threads that call wait().
Waiters == {"w1"}
\* std::size_t arithmetic is modulo SizeMod (width shortened to 16 bits).
SizeMod == 2 ^ 16

VARIABLES
    queue,            \* io_service_: handlers posted and not yet executed (FIFO)
    inflight,         \* stream_: asynchronous reads issued and not yet completed
    open,             \* stream_->is_open()
    workerPc,         \* callback_thread_: position of the worker thread
    cur,              \* arguments (error, bytes_transfered) of the running handler
    read_mutex_,      \* TRUE while some thread owns read_mutex_
    in_,              \* the receive buffer
    in_buffer_size_,  \* occupied length
    read_callback_,   \* the callback slot: "none" or a callback
    stopping_,        \* the stopping flag
    waitPc,           \* position of each wait() caller
    scPc,             \* position of the setCallback caller
    dtorPc,           \* position of the thread that destroys the manager
    reported,         \* kinds of error written to the error log so far
    chunks,           \* history: completions produced by the stream, in order
    regFirst,         \* history: a callback was registered when the first completion
                      \*   was produced
    cbLog,            \* history: callback invocations, in order: the length passed,
                      \*   the buffer passed and the length left in the counter
    sig,              \* history: for a wait caller woken by a signal, the occupied
                      \*   length and the number of callback invocations at the signal
    closePc,          \* position of the thread that closes the manager explicitly
    closeCalls        \* history: number of calls of stream_->close

vars == <<queue, inflight, open, workerPc, cur, read_mutex_, in_, in_buffer_size_,
          read_callback_, stopping_, waitPc, scPc, dtorPc, reported, chunks,
          regFirst, cbLog, sig, closePc, closeCalls>>

ReadTask == [type |-> "doRead"]
CloseTask == [type |-> "doClose"]
HandlerTask(e, n) == [type |-> "handler", err |-> e, n |-> n]

NoCur == [err |-> FALSE, n |-> 0]
NoSig == [on |-> FALSE, size |-> 0, calls |-> 0]

Min(a, b) == IF a < b THEN a ELSE b

RECURSIVE Flatten(_)
Flatten(ss) == IF ss = <<>> THEN <<>> ELSE Head(ss) \o Flatten(Tail(ss))

RECURSIVE Received(_)
\* Number of bytes the stream has handed over in the completions cs.
Received(cs) == IF cs = <<>> THEN 0 ELSE Len(Head(cs).data) + Received(Tail(cs))

\* The stream carries the bytes 1, 2, 3, ...: the next n bytes after the completions cs.
\* (in_.resize() fills the vector with 0, which is no byte of the stream.)
NextBytes(cs, n) == [i \in 1..n |-> Received(cs) + i]

\* Faulty variant: the read is issued for the whole capacity behind the occupied bytes.
SliceWhole == [off |-> in_buffer_size_, len |-> Cap]

\* boost::asio::buffer(in_.data() + in_buffer_size_, in_.size() - in_buffer_size_)
Slice == [off |-> in_buffer_size_, len |-> (Cap - in_buffer_size_) % SizeMod]

\* The stream stores data at in_.data() + off; bytes that fall behind the end of
\* the vector land outside in_.
Store(buf, off, data) ==
    [i \in 1..Cap |-> IF i > off /\ i <= off + Len(data) THEN data[i - off] ELSE buf[i]]

Init ==
    /\ queue = <<ReadTask>>
    /\ inflight = <<>>
    /\ open = TRUE
    /\ workerPc = "idle"
    /\ cur = NoCur
    /\ read_mutex_ = FALSE
    /\ in_ = [i \in 1..Cap |-> 0]
    /\ in_buffer_size_ = 0
    /\ read_callback_ = "none"
    /\ stopping_ = FALSE
    /\ waitPc = [w \in Waiters |-> "out"]
    /\ scPc = "out"
    /\ dtorPc = "alive"
    /\ reported = {}
    /\ chunks = <<>>
    /\ regFirst = FALSE
    /\ cbLog = <<>>
    /\ sig = [w \in Waiters |-> NoSig]
    /\ closePc = "none"
    /\ closeCalls = 0


(***************************************************************************)
(* The worker thread: io_service::run                                      *)
(***************************************************************************)

\* io_service::run takes the oldest posted handler and executes it.
RunOne ==
    /\ workerPc = "idle"
    /\ queue # <<>>
    /\ queue' = Tail(queue)
    /\ LET t == Head(queue) IN
         /\ workerPc' = CASE t.type = "doRead" -> "r_lock"
                          [] t.type = "doClose" -> "c_lock"
                          [] OTHER -> "h_lock"
         /\ cur' = IF t.type = "handler" THEN [err |-> t.err, n |-> t.n] ELSE NoCur
    /\ UNCHANGED <<inflight, open, read_mutex_, in_, in_buffer_size_, read_callback_,
                   stopping_, waitPc, scPc, dtorPc, reported, chunks, regFirst, cbLog, sig, closePc, closeCalls>>

\* io_service::run returns when no handler is posted and no operation is outstanding.
OutOfWork == queue = <<>> /\ inflight = <<>>

WorkerExit ==
    /\ workerPc = "idle"
    /\ OutOfWork
    /\ workerPc' = "exited"
    /\ UNCHANGED <<queue, inflight, open, cur, read_mutex_, in_, in_buffer_size_,
                   read_callback_, stopping_, waitPc, scPc, dtorPc, reported, chunks, regFirst,
                   cbLog, sig, closePc, closeCalls>>

\* ScopedLock lock(read_mutex_): the constructor returns once the mutex is free.
MayLock == ~read_mutex_

\* doRead, line 280
DoReadLock ==
    /\ workerPc = "r_lock"
    /\ MayLock
    /\ read_mutex_' = TRUE
    /\ workerPc' = "r_issue"
    /\ UNCHANGED <<queue, inflight, open, cur, in_, in_buffer_size_, read_callback_,
                   stopping_, waitPc, scPc, dtorPc, reported, chunks, regFirst, cbLog, sig, closePc, closeCalls>>

\* stream_->async_read_some(buffer, handler)
Issue(reads) == Append(reads, Slice)

\* doRead, lines 281-289: issue the read, leave the scope of the lock
DoReadIssue ==
    /\ workerPc = "r_issue"
    /\ inflight' = Issue(inflight)
    /\ read_mutex_' = FALSE
    /\ workerPc' = "idle"
    /\ UNCHANGED <<queue, open, cur, in_, in_buffer_size_, read_callback_, stopping_,
                   waitPc, scPc, dtorPc, reported, chunks, regFirst, cbLog, sig, closePc, closeCalls>>

\* Faulty variant: the handler does not wait for the mutex.
HandlerNoLock == TRUE

\* ScopedLock lock(read_mutex_) of async_read_some_handler, line 296
HandlerMayLock == ~read_mutex_

HandlerLock ==
    /\ workerPc = "h_lock"
    /\ HandlerMayLock
    /\ read_mutex_' = TRUE
    /\ workerPc' = "h_body"
    /\ UNCHANGED <<queue, inflight, open, cur, in_, in_buffer_size_, read_callback_,
                   stopping_, waitPc, scPc, dtorPc, reported, chunks, regFirst, cbLog, sig, closePc, closeCalls>>

\* Faulty variant: a completion without error takes the data branch even with no bytes.
HasDataNoCount(e, n) == ~e

\* Faulty variant: a completion with bytes takes the data branch even with an error.
HasDataNoError(e, n) == n > 0

\* if (error) ... else if (bytes_transfered > 0): the branch that takes the data
HasData(e, n) == ~e /\ n > 0

\* Faulty variant: the counter is set to the size of the new chunk.
AdvanceReplace(size, n) == n

\* in_buffer_size_ += bytes_transfered
Advance(size, n) == (size + n) % SizeMod

\* if (read_callback_): setCallback writes the slot without the lock, so a test
\* that runs while the slot is being written reads the old or the new value.
\* Faulty variant: the handler finds the callback slot empty whatever it holds.
ObservedNone == {"none"}

Observed == IF scPc = "writing" THEN {read_callback_, "f"} ELSE {read_callback_}

\* async_read_some_handler, lines 297-325: up to the call of the callback
HandlerBody ==
    /\ workerPc = "h_body"
    /\ reported' = IF cur.err THEN reported \cup {"read"} ELSE reported
    /\ IF HasData(cur.err, cur.n)
         THEN /\ in_buffer_size_' = Advance(in_buffer_size_, cur.n)
              /\ \E cb \in Observed :
                   IF cb # "none"
                     THEN /\ workerPc' = "in_cb"
                          /\ cbLog' = Append(cbLog, [len |-> in_buffer_size_',
                                                     buf |-> in_,
                                                     ret |-> in_buffer_size_'])
                     ELSE /\ workerPc' = "h_notify"
                          /\ UNCHANGED cbLog
         ELSE /\ workerPc' = "h_rearm"
              /\ UNCHANGED <<in_buffer_size_, cbLog>>
    /\ UNCHANGED <<queue, inflight, open, cur, read_mutex_, in_, read_callback_,
                   stopping_, waitPc, scPc, dtorPc, chunks, regFirst, sig, closePc, closeCalls>>

\* Callback is void(uint8_t*, std::size_t&): the callback may store any length it
\* likes in the manager's counter before it returns.
CallbackWrites == 0..(Cap + 1)

\* Faulty variant: the callback is handed a copy of the length; what it stores is lost.
CallbackReturnByValue ==
    /\ workerPc = "in_cb"
    /\ \E r \in CallbackWrites : cbLog' = [cbLog EXCEPT ![Len(cbLog)].ret = r]
    /\ workerPc' = "h_notify"
    /\ UNCHANGED <<queue, inflight, open, cur, read_mutex_, in_, in_buffer_size_,
                   read_callback_, stopping_, waitPc, scPc, dtorPc, reported, chunks,
                   regFirst, sig, closePc, closeCalls>>

\* read_callback_(in_.data(), in_buffer_size_) returns, line 325
CallbackReturn ==
    /\ workerPc = "in_cb"
    /\ \E r \in CallbackWrites :
         /\ in_buffer_size_' = r
         /\ cbLog' = [cbLog EXCEPT ![Len(cbLog)].ret = r]
    /\ workerPc' = "h_notify"
    /\ UNCHANGED <<queue, inflight, open, cur, read_mutex_, in_, read_callback_,
                   stopping_, waitPc, scPc, dtorPc, reported, chunks, regFirst, sig, closePc, closeCalls>>

\* Faulty variant: the handler wakes nobody.
NotifyNone(wp) == wp

\* read_condition_.notify_all(): every thread blocked on the condition is woken.
NotifyAll(wp) == [w \in Waiters |-> IF wp[w] = "blocked" THEN "signaled" ELSE wp[w]]

\* async_read_some_handler, line 329
HandlerNotify ==
    /\ workerPc = "h_notify"
    /\ waitPc' = NotifyAll(waitPc)
    /\ sig' = [w \in Waiters |->
                 IF waitPc'[w] # waitPc[w]
                   THEN [on |-> TRUE, size |-> in_buffer_size_, calls |-> Len(cbLog)]
                   ELSE sig[w]]
    /\ workerPc' = "h_rearm"
    /\ UNCHANGED <<queue, inflight, open, cur, read_mutex_, in_, in_buffer_size_,
                   read_callback_, stopping_, scPc, dtorPc, reported, chunks, regFirst, cbLog, closePc, closeCalls>>

\* Faulty variant: the handler posts the read task whether or not the manager is stopping.
RearmAlways(q) == Append(q, ReadTask)

\* Faulty variant: the handler never posts the read task.
RearmNever(q) == q

\* Faulty variant: the handler posts the read task twice.
RearmTwice(q) == IF ~stopping_ THEN Append(Append(q, ReadTask), ReadTask) ELSE q

\* if (!stopping_) io_service_->post(doRead)
Rearm(q) == IF ~stopping_ THEN Append(q, ReadTask) ELSE q

\* async_read_some_handler, lines 332-334: re-arm, leave the scope of the lock
HandlerRearm ==
    /\ workerPc = "h_rearm"
    /\ queue' = Rearm(queue)
    /\ read_mutex_' = FALSE
    /\ workerPc' = "idle"
    /\ cur' = NoCur
    /\ UNCHANGED <<inflight, open, in_, in_buffer_size_, read_callback_, stopping_,
                   waitPc, scPc, dtorPc, reported, chunks, regFirst, cbLog, sig, closePc, closeCalls>>

\* doClose, line 339
DoCloseLock ==
    /\ workerPc = "c_lock"
    /\ MayLock
    /\ read_mutex_' = TRUE
    /\ workerPc' = "c_flag"
    /\ UNCHANGED <<queue, inflight, open, cur, in_, in_buffer_size_, read_callback_,
                   stopping_, waitPc, scPc, dtorPc, reported, chunks, regFirst, cbLog, sig, closePc, closeCalls>>

\* doClose, line 340
DoCloseFlag ==
    /\ workerPc = "c_flag"
    /\ stopping_' = TRUE
    /\ workerPc' = "c_close"
    /\ UNCHANGED <<queue, inflight, open, cur, read_mutex_, in_, in_buffer_size_,
                   read_callback_, waitPc, scPc, dtorPc, reported, chunks, regFirst, cbLog, sig, closePc, closeCalls>>

\* Faulty variant: doClose leaves the stream open.
CloseSkipped(o) == o

\* stream_->close(error): the stream is closed afterwards, error or not
Close(o) == FALSE

\* Faulty variant: the shutdown step signals the condition variable as well.
DoCloseStreamNotifies ==
    /\ workerPc = "c_close"
    /\ open' = Close(open)
    /\ closeCalls' = closeCalls + 1
    /\ \E e \in BOOLEAN : reported' = IF e THEN reported \cup {"close"} ELSE reported
    /\ read_mutex_' = FALSE
    /\ workerPc' = "idle"
    /\ waitPc' = NotifyAll(waitPc)
    /\ UNCHANGED <<queue, inflight, cur, in_, in_buffer_size_, read_callback_,
                   stopping_, scPc, dtorPc, chunks, regFirst, cbLog, sig, closePc>>

\* doClose, lines 341-347: stream_->close(error); an error is logged only
DoCloseStream ==
    /\ workerPc = "c_close"
    /\ open' = Close(open)
    /\ closeCalls' = closeCalls + 1
    /\ \E e \in BOOLEAN : reported' = IF e THEN reported \cup {"close"} ELSE reported
    /\ read_mutex_' = FALSE
    /\ workerPc' = "idle"
    /\ UNCHANGED <<queue, inflight, cur, in_, in_buffer_size_, read_callback_,
                   stopping_, waitPc, scPc, dtorPc, chunks, regFirst, cbLog, sig, closePc>>

(***************************************************************************)
(* The stream (StreamT)                                                    *)
(***************************************************************************)

\* An open stream completes the oldest outstanding read: it stores at most as
\* many bytes as the slice holds and posts the handler with (error, count).
StreamComplete ==
    /\ inflight # <<>>
    /\ open
    /\ Len(chunks) < MaxCompletions
    /\ LET rd == Head(inflight) IN
         \E e \in BOOLEAN, n \in 0..Min(rd.len, MaxChunk) :
            LET d == NextBytes(chunks, n) IN
            /\ in_' = Store(in_, rd.off, d)
            /\ queue' = Append(queue, HandlerTask(e, n))
            /\ chunks' = Append(chunks, [err |-> e, data |-> d])
            /\ regFirst' = IF chunks = <<>> THEN read_callback_ # "none" ELSE regFirst
    /\ inflight' = Tail(inflight)
    /\ UNCHANGED <<open, workerPc, cur, read_mutex_, in_buffer_size_, read_callback_,
                   stopping_, waitPc, scPc, dtorPc, reported, cbLog, sig, closePc, closeCalls>>

\* A closed stream completes every read with an error and no bytes
\* (operation_aborted for a read that was outstanding, bad_descriptor for a later one).
StreamAbort ==
    /\ inflight # <<>>
    /\ ~open
    /\ queue' = Append(queue, HandlerTask(TRUE, 0))
    /\ chunks' = Append(chunks, [err |-> TRUE, data |-> <<>>])
    /\ regFirst' = IF chunks = <<>> THEN read_callback_ # "none" ELSE regFirst
    /\ inflight' = Tail(inflight)
    /\ UNCHANGED <<open, workerPc, cur, read_mutex_, in_, in_buffer_size_,
                   read_callback_, stopping_, waitPc, scPc, dtorPc, reported, cbLog, sig, closePc, closeCalls>>

(***************************************************************************)
(* Foreground threads                                                      *)
(***************************************************************************)

\* wait() is entered
WaitCall(w) ==
    /\ waitPc[w] = "out"
    /\ dtorPc = "alive"
    /\ waitPc' = [waitPc EXCEPT ![w] = "w_lock"]
    /\ UNCHANGED <<queue, inflight, open, workerPc, cur, read_mutex_, in_,
                   in_buffer_size_, read_callback_, stopping_, scPc, dtorPc, reported,
                   chunks, regFirst, cbLog, sig, closePc, closeCalls>>

\* wait, line 352
WaitLock(w) ==
    /\ waitPc[w] = "w_lock"
    /\ MayLock
    /\ read_mutex_' = TRUE
    /\ waitPc' = [waitPc EXCEPT ![w] = "w_locked"]
    /\ UNCHANGED <<queue, inflight, open, workerPc, cur, in_, in_buffer_size_,
                   read_callback_, stopping_, scPc, dtorPc, reported, chunks, regFirst, cbLog, sig, closePc, closeCalls>>

\* Faulty variant: wait returns without blocking when the buffer holds data.
WaitBlockChecks(w) ==
    /\ waitPc[w] = "w_locked"
    /\ IF in_buffer_size_ > 0
         THEN /\ waitPc' = [waitPc EXCEPT ![w] = "w_relocked"]
              /\ UNCHANGED read_mutex_
         ELSE /\ waitPc' = [waitPc EXCEPT ![w] = "blocked"]
              /\ read_mutex_' = FALSE
    /\ UNCHANGED <<queue, inflight, open, workerPc, cur, in_, in_buffer_size_,
                   read_callback_, stopping_, scPc, dtorPc, reported, chunks, regFirst,
                   cbLog, sig, closePc, closeCalls>>

\* wait, line 353: timed_wait unlocks the mutex and blocks
WaitBlock(w) ==
    /\ waitPc[w] = "w_locked"
    /\ read_mutex_' = FALSE
    /\ waitPc' = [waitPc EXCEPT ![w] = "blocked"]
    /\ UNCHANGED <<queue, inflight, open, workerPc, cur, in_, in_buffer_size_,
                   read_callback_, stopping_, scPc, dtorPc, reported, chunks, regFirst, cbLog, sig, closePc, closeCalls>>

\* timed_wait unblocks because the timeout elapsed (or spuriously)
WaitTimeout(w) ==
    /\ waitPc[w] = "blocked"
    /\ waitPc' = [waitPc EXCEPT ![w] = "timedout"]
    /\ UNCHANGED <<queue, inflight, open, workerPc, cur, read_mutex_, in_,
                   in_buffer_size_, read_callback_, stopping_, scPc, dtorPc, reported,
                   chunks, regFirst, cbLog, sig, closePc, closeCalls>>

\* timed_wait reacquires the mutex before it returns
WaitRelock(w) ==
    /\ waitPc[w] \in {"signaled", "timedout"}
    /\ MayLock
    /\ read_mutex_' = TRUE
    /\ waitPc' = [waitPc EXCEPT ![w] = "w_relocked"]
    /\ UNCHANGED <<queue, inflight, open, workerPc, cur, in_, in_buffer_size_,
                   read_callback_, stopping_, scPc, dtorPc, reported, chunks, regFirst, cbLog, sig, closePc, closeCalls>>

\* wait returns, line 358: the scoped lock is released
WaitReturn(w) ==
    /\ waitPc[w] = "w_relocked"
    /\ read_mutex_' = FALSE
    /\ waitPc' = [waitPc EXCEPT ![w] = "out"]
    /\ sig' = [sig EXCEPT ![w] = NoSig]
    /\ UNCHANGED <<queue, inflight, open, workerPc, cur, in_, in_buffer_size_,
                   read_callback_, stopping_, scPc, dtorPc, reported, chunks, regFirst, cbLog, closePc, closeCalls>>

\* setCallback, line 136: the assignment to read_callback_ begins; no lock is taken
SetCallbackBegin ==
    /\ scPc = "out"
    /\ dtorPc = "alive"
    /\ scPc' = "writing"
    /\ UNCHANGED <<queue, inflight, open, workerPc, cur, read_mutex_, in_,
                   in_buffer_size_, read_callback_, stopping_, waitPc, dtorPc, reported,
                   chunks, regFirst, cbLog, sig, closePc, closeCalls>>

\* setCallback, line 136: the assignment is complete
SetCallbackEnd ==
    /\ scPc = "writing"
    /\ read_callback_' = "f"
    /\ scPc' = "out"
    /\ UNCHANGED <<queue, inflight, open, workerPc, cur, read_mutex_, in_,
                   in_buffer_size_, stopping_, waitPc, dtorPc, reported, chunks, regFirst, cbLog, sig, closePc, closeCalls>>

\* ~AsyncManager, line 214
DtorPost ==
    /\ dtorPc = "alive"
    /\ closePc # "closing"
    /\ queue' = Append(queue, CloseTask)
    /\ dtorPc' = "joining"
    /\ UNCHANGED <<inflight, open, workerPc, cur, read_mutex_, in_, in_buffer_size_,
                   read_callback_, stopping_, waitPc, scPc, reported, chunks, regFirst, cbLog, sig, closePc, closeCalls>>

\* Faulty variant: the destructor does not wait for the worker thread.
JoinedAtOnce == TRUE

\* callback_thread_->join() returns once the worker thread has ended
Joined == workerPc = "exited"

\* ~AsyncManager, line 215
DtorJoin ==
    /\ dtorPc = "joining"
    /\ Joined
    /\ dtorPc' = "joined"
    /\ UNCHANGED <<queue, inflight, open, workerPc, cur, read_mutex_, in_,
                   in_buffer_size_, read_callback_, stopping_, waitPc, scPc, reported,
                   chunks, regFirst, cbLog, sig, closePc, closeCalls>>

Worker ==
    \/ RunOne
    \/ WorkerExit
    \/ DoReadLock
    \/ DoReadIssue
    \/ HandlerLock
    \/ HandlerBody
    \/ CallbackReturn
    \/ HandlerNotify
    \/ HandlerRearm
    \/ DoCloseLock
    \/ DoCloseFlag
    \/ DoCloseStream

Stream ==
    \/ StreamComplete
    \/ StreamAbort

\* close(), as the specification describes it (the source declares no close()):
\* the body of the destructor, called on a live object: post doClose ...
ClosePost ==
    /\ closePc = "none"
    /\ dtorPc = "alive"
    /\ queue' = Append(queue, CloseTask)
    /\ closePc' = "closing"
    /\ UNCHANGED <<inflight, open, workerPc, cur, read_mutex_, in_, in_buffer_size_,
                   read_callback_, stopping_, waitPc, scPc, dtorPc, reported, chunks,
                   regFirst, cbLog, sig, closeCalls>>

\* ... and block until the worker thread has ended.
CloseJoin ==
    /\ closePc = "closing"
    /\ Joined
    /\ closePc' = "closed"
    /\ UNCHANGED <<queue, inflight, open, workerPc, cur, read_mutex_, in_,
                   in_buffer_size_, read_callback_, stopping_, waitPc, scPc, dtorPc,
                   reported, chunks, regFirst, cbLog, sig, closeCalls>>

ExplicitClose == ClosePost \/ CloseJoin

Foreground ==
    \/ \E w \in Waiters : WaitCall(w)
    \/ \E w \in Waiters : WaitLock(w)
    \/ \E w \in Waiters : WaitBlock(w)
    \/ \E w \in Waiters : WaitTimeout(w)
    \/ \E w \in Waiters : WaitRelock(w)
    \/ \E w \in Waiters : WaitReturn(w)
    \/ SetCallbackBegin
    \/ SetCallbackEnd
    \/ DtorPost
    \/ DtorJoin

Next == Worker \/ Stream \/ Foreground

Spec == Init /\ [][Next]_vars

\* The program with a caller that may close the manager explicitly before destroying it.
CloseSpec == Init /\ [][Next \/ ExplicitClose]_vars


(***************************************************************************)
(* Fairness: the worker thread keeps running (the callback returns), a     *)
(* thread that owns the mutex goes on to release it, a closed stream       *)
(* completes the reads it holds, and join returns once the thread ended.   *)
(***************************************************************************)
FairSpec ==
    /\ Spec
    /\ WF_vars(Worker)
    /\ WF_vars(StreamAbort)
    /\ \A w \in Waiters : WF_vars(WaitBlock(w)) /\ WF_vars(WaitReturn(w))
    /\ WF_vars(DtorJoin)

(***************************************************************************)
(* Fairness for wait callers, on top of FairSpec: the timeout of a blocked *)
(* caller elapses, and a caller that keeps trying to lock the mutex gets   *)
(* it (the worker releases it at the end of every handler).                *)
(***************************************************************************)
WaitFairSpec ==
    /\ FairSpec
    /\ \A w \in Waiters :
         /\ WF_vars(WaitTimeout(w))
         /\ SF_vars(WaitLock(w))
         /\ SF_vars(WaitRelock(w))

\* CloseSpec with the fairness of FairSpec; the join of close() returns as well, and
\* the worker thread gets the mutex although wait may be called again and again on
\* the closed manager (a wait caller leaves the mutex free while it is blocked).
FairCloseSpec ==
    /\ CloseSpec
    /\ WF_vars(Worker)
    /\ SF_vars(DoReadLock \/ HandlerLock \/ DoCloseLock)
    /\ WF_vars(StreamAbort)
    /\ \A w \in Waiters : WF_vars(WaitBlock(w)) /\ WF_vars(WaitReturn(w))
    /\ WF_vars(DtorJoin)
    /\ WF_vars(CloseJoin)

(***************************************************************************)
(* Properties                                                              *)
(***************************************************************************)

HandlerPcs == {"h_lock", "h_body", "in_cb", "h_notify", "h_rearm"}
HandlerLockedPcs == {"h_body", "in_cb", "h_notify", "h_rearm"}
ShutdownStepPcs == {"c_flag", "c_close"}

\* Number of completion handlers posted and not yet started.
HandlersQueued == Cardinality({i \in 1..Len(queue) : queue[i].type = "handler"})

\* A wait caller owns the mutex: between locking and blocking, or between waking
\* and returning.
WaiterHoldsLock == \E w \in Waiters : waitPc[w] \in {"w_locked", "w_relocked"}

\* C1: at most one asynchronous read is outstanding on the stream, and no read is
\* outstanding while the completion handler of an earlier read is still queued or
\* running.
C1_OneReadInFlight ==
    Len(inflight) + HandlersQueued + (IF workerPc \in HandlerPcs THEN 1 ELSE 0) <= 1

\* A second read was issued after the first completed, while a wait caller and the
\* destructor are active.
C1_Witness ==
    /\ Len(inflight) = 1
    /\ Len(chunks) >= 1
    /\ dtorPc = "joining"
    /\ \E w \in Waiters : waitPc[w] # "out"


\* The completions produced so far are non-empty, free of error and fit the buffer.
CleanChunks ==
    /\ \A k \in 1..Len(chunks) : ~chunks[k].err /\ chunks[k].data # <<>>
    /\ Received(chunks) <= Cap

\* No callback invocation so far has changed the length it was passed.
LengthsKept == \A k \in 1..Len(cbLog) : cbLog[k].ret = cbLog[k].len

\* Completions whose handler has not yet reached the callback.
NotYetHandled ==
    HandlersQueued + (IF workerPc \in {"h_lock", "h_body"} THEN 1 ELSE 0)

\* C2: with a callback registered before the first completion that keeps the length
\* it is passed, and non-empty error-free chunks c1..cn that fit the buffer, the
\* callback is invoked once per chunk, in order, and invocation k gets the length
\* len(c1)+...+len(ck) and a buffer that starts with c1..ck.
C2_CallbackFidelity ==
    (regFirst /\ CleanChunks /\ LengthsKept) =>
        /\ Len(cbLog) = Len(chunks) - NotYetHandled
        /\ \A k \in 1..Len(cbLog) :
             /\ cbLog[k].len = Received(SubSeq(chunks, 1, k))
             /\ SubSeq(cbLog[k].buf, 1, cbLog[k].len)
                  = Flatten([j \in 1..k |-> chunks[j].data])

\* Two chunks were delivered and the callback has returned from the second call.
C2_Witness ==
    /\ regFirst /\ CleanChunks /\ LengthsKept
    /\ Len(chunks) = 2
    /\ Len(cbLog) = 2
    /\ workerPc = "h_notify"

\* C3: once the join of the destructor has returned, the callback is not invoked
\* and neither the occupied length nor the buffer is modified.
C3_QuietAfterJoin ==
    [][dtorPc = "joined" => UNCHANGED <<cbLog, in_buffer_size_, in_>>]_vars

\* The join has returned after a shutdown that met a completion with data.
C3_Witness ==
    /\ dtorPc = "joined"
    /\ Len(cbLog) >= 1
    /\ Len(chunks) >= 2

\* C4: once the destructor has posted the close task, the worker runs out of work,
\* the worker thread ends and the join returns.
C4_ShutdownTerminates ==
    (dtorPc = "joining") ~>
        (dtorPc = "joined" /\ workerPc = "exited" /\ queue = <<>> /\ inflight = <<>>)

\* The join has returned although the close of the stream reported an error and a
\* read was outstanding when the stream was closed.
C4_Witness ==
    /\ dtorPc = "joined"
    /\ "close" \in reported
    /\ Len(chunks) >= 1
    /\ chunks[Len(chunks)].err

\* C5 as stated: the length passed to a callback invocation is never below the
\* length passed to the invocation before it.
C5_PassedLengthsMonotone ==
    \A k \in 2..Len(cbLog) : cbLog[k].len >= cbLog[k - 1].len

\* C5 amended: the length passed to a callback invocation is never below the length
\* the invocation before it left in the counter, and the occupied length decreases
\* only where a running callback stores a smaller value.
C5_OnlyCallbackLowers ==
    /\ [](\A k \in 2..Len(cbLog) : cbLog[k].len >= cbLog[k - 1].ret)
    /\ [][in_buffer_size_' < in_buffer_size_ => workerPc = "in_cb"]_vars

\* A second invocation has been passed less than the first, after the first one
\* lowered the counter.
C5_Witness ==
    /\ Len(cbLog) = 2
    /\ cbLog[1].ret < cbLog[1].len
    /\ cbLog[2].len < cbLog[1].len

\* Every outstanding read was issued for the slice [occupied length, capacity).
ReadsTargetFreeSlice ==
    \A i \in 1..Len(inflight) :
        /\ inflight[i].off = in_buffer_size_
        /\ inflight[i].off + inflight[i].len = Cap

\* C6 as stated: the occupied length never exceeds the capacity and every read is
\* issued for the slice [occupied length, capacity).
C6_WithinCapacity == in_buffer_size_ >= 0 /\ in_buffer_size_ <= Cap /\ ReadsTargetFreeSlice

\* No callback invocation so far has stored a length above the capacity.
CallbackWithinCapacity == \A k \in 1..Len(cbLog) : cbLog[k].ret <= Cap

\* C6 amended: as long as no callback has stored a length above the capacity, the
\* occupied length stays within 0..capacity and every read is issued for the slice
\* [occupied length, capacity).
C6_WithinCapacityUnlessCallback == CallbackWithinCapacity => C6_WithinCapacity

\* The buffer is full and a read for the empty slice is outstanding.
C6_Witness ==
    /\ CallbackWithinCapacity
    /\ in_buffer_size_ = Cap
    /\ Len(inflight) = 1
    /\ inflight[1].len = 0

\* Some byte below the occupied length changes in this step.
OccupiedBytesChange ==
    \E i \in 1..Min(in_buffer_size_, Cap) : in_'[i] # in_[i]

\* C7: the occupied length and the occupied bytes are modified and the callback is
\* invoked only by the handler while the worker owns the mutex: never while a wait
\* caller owns it and never during the shutdown step, and a callback is not invoked
\* while one runs.
C7_MutationUnderLock ==
    /\ [](workerPc \in HandlerLockedPcs => read_mutex_ /\ ~WaiterHoldsLock)
    /\ [][(in_buffer_size_' # in_buffer_size_ \/ cbLog' # cbLog \/ OccupiedBytesChange) =>
            /\ workerPc \in {"h_body", "in_cb"}
            /\ workerPc \notin ShutdownStepPcs
            /\ read_mutex_ /\ ~WaiterHoldsLock
            /\ (Len(cbLog') > Len(cbLog) => workerPc # "in_cb")]_vars

\* The callback is running while a wait caller is trying to lock the mutex.
C7_Witness ==
    /\ workerPc = "in_cb"
    /\ \E w \in Waiters : waitPc[w] \in {"w_lock", "signaled", "timedout"}

\* C8 as stated: a callback registration does not execute while the completion
\* handler owns the mutex and tests or invokes the callback slot.
C8_RegistrationExcluded ==
    scPc = "writing" => workerPc \notin {"h_body", "in_cb"}

\* The handler of a completion without error and without bytes is running.
ZeroRun == workerPc \in HandlerPcs /\ ~cur.err /\ cur.n = 0

\* C9: the handler of a completion without error and without bytes leaves the
\* occupied length alone, does not invoke the callback and does not signal; all it
\* does is post the next read task when the manager is not stopping.
C9_ZeroByteCompletion ==
    [][(ZeroRun /\ workerPc' # workerPc) =>
         /\ UNCHANGED <<in_buffer_size_, in_, cbLog, waitPc, reported, inflight, open,
                        stopping_, read_callback_>>
         /\ queue' = IF workerPc = "h_rearm" /\ ~stopping_
                       THEN Append(queue, ReadTask) ELSE queue]_vars

\* The handler of a zero-byte completion is about to return while a callback is
\* registered and a wait caller is blocked.
C9_Witness ==
    /\ ZeroRun
    /\ workerPc = "h_rearm"
    /\ read_callback_ = "f"
    /\ \E w \in Waiters : waitPc[w] = "blocked"

\* The handler of a completion with an error is running.
ErrorRun == workerPc \in HandlerPcs /\ cur.err

\* C10: the handler of a completion with an error, whatever its byte count, leaves
\* the occupied length alone, does not invoke the callback and does not signal; it
\* logs the error and posts the next read task unless the manager is stopping.
C10_ErrorCompletion ==
    [][(ErrorRun /\ workerPc' # workerPc) =>
         /\ UNCHANGED <<in_buffer_size_, in_, cbLog, waitPc, inflight, open, stopping_,
                        read_callback_>>
         /\ (workerPc = "h_body" => "read" \in reported')
         /\ queue' = IF workerPc = "h_rearm" /\ ~stopping_
                       THEN Append(queue, ReadTask) ELSE queue]_vars

\* The handler of an error completion that carries bytes is about to re-arm while a
\* callback is registered and a wait caller is blocked.
C10_Witness ==
    /\ ErrorRun
    /\ cur.n > 0
    /\ workerPc = "h_rearm"
    /\ ~stopping_
    /\ read_callback_ = "f"
    /\ \E w \in Waiters : waitPc[w] = "blocked"


\* The handler of a completion without error and with bytes is running.
DataRun == workerPc \in HandlerPcs /\ ~cur.err /\ cur.n > 0

\* C11: every call of wait returns, and returns owning the mutex again; a caller
\* that is blocked when the handler of a completion with bytes signals is woken by
\* that signal.
C11_WaitReturns ==
    /\ \A w \in Waiters : (waitPc[w] # "out") ~> (waitPc[w] = "out")
    /\ [][\A w \in Waiters :
            /\ (waitPc[w] # "out" /\ waitPc'[w] = "out") =>
                   (waitPc[w] = "w_relocked" /\ read_mutex_)
            /\ (waitPc[w] = "blocked" /\ workerPc = "h_notify" /\ workerPc' # workerPc) =>
                   waitPc'[w] = "signaled"]_vars

\* A blocked caller has just been woken by the signal of a completion with bytes.
C11_Witness ==
    /\ workerPc = "h_rearm"
    /\ DataRun
    /\ \E w \in Waiters : waitPc[w] = "signaled"

\* The wait caller w has reacquired the mutex after being woken by a signal.
ReturnsSignaled(w) == waitPc[w] = "w_relocked" /\ sig[w].on

\* Callback invocations made since the signal that woke w.
CallsSinceSignal(w) == (sig[w].calls + 1)..Len(cbLog)

\* C12: when a wait call returns because of a signal, the occupied length it reads
\* under the lock is at least the occupied length that held when the signal was raised.
C12_SeesSignaledLength ==
    \A w \in Waiters : ReturnsSignaled(w) => in_buffer_size_ >= sig[w].size

\* C12, amended: the same, provided no callback invoked since the signal stored a
\* length below the one it was passed.
C12_SeesSignaledLengthUnlessLowered ==
    \A w \in Waiters :
        (ReturnsSignaled(w) /\ \A k \in CallsSinceSignal(w) : cbLog[k].ret >= cbLog[k].len)
            => in_buffer_size_ >= sig[w].size

\* A signaled caller returns after a later completion went through the callback.
C12_Witness ==
    \E w \in Waiters :
        /\ ReturnsSignaled(w)
        /\ CallsSinceSignal(w) # {}
        /\ \A k \in CallsSinceSignal(w) : cbLog[k].ret >= cbLog[k].len
        /\ in_buffer_size_ > sig[w].size

\* C13: shutdown is idempotent: with an explicit close followed by destruction the
\* close of the transport is requested at most once, and neither call hangs.
C13_IdempotentShutdown ==
    /\ [](closeCalls <= 1)
    /\ (closePc = "closing" \/ dtorPc = "joining")
           ~> (closePc # "closing" /\ dtorPc # "joining")

\* The manager was closed explicitly and then destroyed; both calls have returned.
C13_Witness ==
    /\ closePc = "closed"
    /\ dtorPc = "joined"
    /\ closeCalls = 1

\* No wait caller is woken by a signal in the step.
NoSignal == \A w \in Waiters : waitPc'[w] = "signaled" => waitPc[w] = "signaled"

\* The buffer is full and the handler that filled it is past its callback and signal.
StalledFull == in_buffer_size_ = Cap /\ workerPc \notin {"in_cb", "h_notify"}

\* C14: once the occupied length equals the capacity it never changes again, the
\* callback is never invoked and no waiter is signaled.
C14_FullStalls ==
    [][in_buffer_size_ = Cap =>
          /\ in_buffer_size_' = Cap
          /\ cbLog' = cbLog
          /\ NoSignal]_vars

\* C14, amended: once the occupied length equals the capacity and the handler that
\* brought it there has returned from its callback and signaled, the length never
\* changes, the callback is not invoked and no waiter is signaled; every read is
\* issued for a zero-length destination and completes with no bytes; the handler of
\* an error-free completion reports nothing and posts the next read unless the
\* stopping flag is set.
C14_FullStallsAfterHandler ==
    /\ [](StalledFull =>
            /\ \A i \in 1..Len(inflight) : inflight[i].len = 0
            /\ workerPc = "r_issue" => Slice.len = 0
            /\ \A i \in 1..Len(queue) : queue[i].type = "handler" => queue[i].n = 0
            /\ workerPc \in {"h_lock", "h_body"} => cur.n = 0)
    /\ [][StalledFull =>
            /\ StalledFull'
            /\ cbLog' = cbLog
            /\ NoSignal
            /\ (workerPc = "h_body" /\ ~cur.err) => reported' = reported
            /\ (workerPc = "h_rearm" /\ ~stopping_ /\ workerPc' # workerPc)
                   => queue' = Append(queue, ReadTask)]_vars

\* The buffer was filled through the callback, and a read issued afterwards has
\* completed with no bytes and no error.
C14_Witness ==
    /\ workerPc = "h_rearm"
    /\ in_buffer_size_ = Cap
    /\ ZeroRun
    /\ Len(cbLog) >= 1

\* Number of read tasks posted and not yet executed.
ReadsQueued == Cardinality({i \in 1..Len(queue) : queue[i].type = "doRead"})

\* C15: the shutdown step sets the stopping flag before it closes the transport,
\* both while it owns the mutex; the handler tests the flag while it owns the mutex;
\* once the flag is set no read task is posted any more, and the flag stays set.
C15_StoppingStopsRearm ==
    /\ [](~open => stopping_)
    /\ [](workerPc \in ShutdownStepPcs \cup {"h_rearm"} =>
             read_mutex_ /\ ~WaiterHoldsLock)
    /\ [][stopping_ => stopping_' /\ ReadsQueued' <= ReadsQueued]_vars

\* The handler of the completion that the close caused is about to test the flag.
C15_Witness ==
    /\ workerPc = "h_rearm"
    /\ stopping_
    /\ ~open
    /\ cur.err

\* C16: once the stopping flag is set no read is issued on the stream any more, even
\* when a read task was queued behind the close task.
C16_NoReadIssuedWhenStopping ==
    [][stopping_ => Len(inflight') <= Len(inflight)]_vars

\* The worker thread takes the step.
WorkerSteps == workerPc' # workerPc

\* C17: the handler of an error-free completion with bytes first advances the
\* occupied length, then invokes the callback if one is registered, and signals all
\* blocked waiters only after the callback has returned; the advance and the signal
\* happen also when no callback is registered.
C17_AdvanceCallbackSignal ==
    [][/\ (workerPc = "h_body" /\ DataRun /\ WorkerSteps) =>
            /\ in_buffer_size_' = (in_buffer_size_ + cur.n) % SizeMod
            /\ NoSignal
            /\ (read_callback_ = "f" /\ scPc = "out") =>
                   /\ workerPc' = "in_cb"
                   /\ cbLog' = Append(cbLog, [len |-> in_buffer_size_', buf |-> in_,
                                               ret |-> in_buffer_size_'])
            /\ (read_callback_ = "none" /\ scPc = "out") =>
                   /\ workerPc' = "h_notify"
                   /\ cbLog' = cbLog
       /\ (workerPc = "in_cb" /\ WorkerSteps) =>
            /\ DataRun
            /\ workerPc' = "h_notify"
            /\ NoSignal
       /\ (workerPc = "h_notify" /\ WorkerSteps) =>
            /\ DataRun
            /\ workerPc' = "h_rearm"
            /\ in_buffer_size_' = in_buffer_size_
            /\ \A w \in Waiters : waitPc[w] = "blocked" => waitPc'[w] = "signaled"
       /\ workerPc # "h_notify" => NoSignal]_vars

\* The callback has returned from a completion with bytes while a caller is blocked
\* in wait; the handler is about to signal.
C17_Witness ==
    /\ workerPc = "h_notify"
    /\ DataRun
    /\ read_callback_ = "f"
    /\ Len(cbLog) >= 1
    /\ \E w \in Waiters : waitPc[w] = "blocked"

\* Positions of the worker thread inside doClose.
ShutdownPcs == {"c_lock"} \cup ShutdownStepPcs

\* C18: the shutdown step does not signal the condition variable: a caller blocked
\* in wait is left blocked by it, and leaves the blocked state only through its
\* timeout or through the signal of a completion with bytes; once the worker thread
\* has ended only the timeout is left.
C18_ShutdownLeavesWaitersBlocked ==
    [][\A w \in Waiters :
          /\ (workerPc \in ShutdownPcs /\ WorkerSteps) => waitPc'[w] = waitPc[w]
          /\ (waitPc[w] = "blocked" /\ waitPc'[w] # "blocked") =>
                 \/ waitPc'[w] = "timedout"
                 \/ waitPc'[w] = "signaled" /\ workerPc = "h_notify" /\ DataRun
          /\ (waitPc[w] = "blocked" /\ workerPc = "exited") =>
                 waitPc'[w] \in {"blocked", "timedout"}]_vars

\* A caller is still blocked in wait after the shutdown step ran and the worker
\* thread ended.
C18_Witness ==
    /\ workerPc = "exited"
    /\ stopping_
    /\ ~open
    /\ \E w \in Waiters : waitPc[w] = "blocked"

\* 1 while the worker thread executes a completion handler, else 0.
HandlerRunning == IF workerPc \in HandlerPcs THEN 1 ELSE 0

\* 1 while the worker thread executes a read task, else 0.
ReadRunning == IF workerPc \in {"r_lock", "r_issue"} THEN 1 ELSE 0

\* C19: until the stopping flag is set, the number of queued read tasks plus reads
\* in flight plus queued or running completion handlers is 1.
C19_OneUnitOfReadWork ==
    ~stopping_ => ReadsQueued + Len(inflight) + HandlersQueued + HandlerRunning = 1

\* C19, amended: until the stopping flag is set, the number of queued or running
\* read tasks plus reads in flight plus queued or running completion handlers is 1;
\* every handler that ends before the flag is set posts exactly one read task, and
\* the worker thread does not end.
C19_OneUnitOfReadWorkOrRunning ==
    /\ [](~stopping_ =>
            /\ ReadsQueued + ReadRunning + Len(inflight)
                 + HandlersQueued + HandlerRunning = 1
            /\ workerPc # "exited")
    /\ [][(workerPc = "h_rearm" /\ ~stopping_ /\ WorkerSteps) =>
              queue' = Append(queue, ReadTask)]_vars

\* A completion has been handled and its handler has posted the next read task.
C19_Witness ==
    /\ ~stopping_
    /\ Len(chunks) >= 1
    /\ workerPc = "idle"
    /\ queue = <<ReadTask>>

\* C20: a signal is not remembered: wait tests neither the occupied length nor a flag,
\* so a caller that owns the mutex always blocks, whatever the buffer holds, and a
\* blocked caller stays blocked until the handler of a later completion with bytes
\* signals or its timeout elapses.
C20_SignalNotRemembered ==
    [][\A w \in Waiters :
          /\ (waitPc[w] = "w_locked" /\ waitPc'[w] # "w_locked") =>
                 waitPc'[w] = "blocked" /\ ~read_mutex_'
          /\ (waitPc[w] = "blocked" /\ workerPc # "h_notify") =>
                 waitPc'[w] \in {"blocked", "timedout"}
          /\ (waitPc[w] # "w_relocked" /\ waitPc'[w] = "w_relocked") =>
                 waitPc[w] \in {"signaled", "timedout"}]_vars

\* A caller that called wait after a completion with bytes was signaled is blocked
\* although the buffer holds data; the next read is in flight.
C20_Witness ==
    /\ in_buffer_size_ > 0
    /\ workerPc = "idle"
    /\ queue = <<>>
    /\ Len(inflight) = 1
    /\ \E w \in Waiters : waitPc[w] = "blocked"

\* C21: the callback is handed the manager's own counter: the length it stores
\* becomes the occupied length; the manager itself changes the counter only by adding
\* the bytes of a completion, so it never lowers or resets it; every read is issued
\* for the slice that starts at the counter, which stays there while the read is in
\* flight; and as long as no callback stored more than the capacity, the occupied
\* length stays within the capacity, reads end at the capacity, and at most one read
\* is in flight.
C21_CallbackOwnsCounter ==
    /\ [][(workerPc = "in_cb" /\ WorkerSteps) =>
              /\ workerPc' = "h_notify"
              /\ in_buffer_size_' \in CallbackWrites
              /\ cbLog'[Len(cbLog')].ret = in_buffer_size_']_vars
    /\ [][in_buffer_size_' # in_buffer_size_ =>
              \/ workerPc = "in_cb" /\ WorkerSteps
              \/ /\ workerPc = "h_body" /\ WorkerSteps /\ DataRun
                 /\ in_buffer_size_' = in_buffer_size_ + cur.n]_vars
    /\ [][Len(inflight') > Len(inflight) =>
              /\ workerPc = "r_issue"
              /\ inflight' = Append(inflight,
                                    [off |-> in_buffer_size_,
                                     len |-> (Cap - in_buffer_size_) % SizeMod])]_vars
    /\ [](\A i \in 1..Len(inflight) : inflight[i].off = in_buffer_size_)
    /\ [](CallbackWithinCapacity =>
             /\ in_buffer_size_ \in 0..Cap
             /\ \A i \in 1..Len(inflight) : inflight[i].off + inflight[i].len = Cap
             /\ Len(inflight) + HandlersQueued + HandlerRunning <= 1)

\* The callback stored a length below the one it was passed, and the next read is in
\* flight for the slice from that length to the capacity.
C21_Witness ==
    /\ Len(cbLog) >= 1
    /\ cbLog[Len(cbLog)].ret < cbLog[Len(cbLog)].len
    /\ inflight = <<[off |-> cbLog[Len(cbLog)].ret, len |-> Cap - cbLog[Len(cbLog)].ret]>>
    /\ in_buffer_size_ = cbLog[Len(cbLog)].ret

====
